---- MODULE Spec2Model ----
(***************************************************************************)
(* Cluster settings of the dashboard backend: updateClusterSettings and    *)
(* getClusterSettings (services/groupSettingsService.ts, lines 26-196)     *)
(* against a Kubernetes namespace holding three ConfigMaps.                *)
(*                                                                         *)
(* A JavaScript string is a sequence of one-character strings, so that     *)
(* `${pvcSize}Gi`, replace('Gi', ''), Number(...) and !== are computed as   *)
(* the code computes them. A handler runs from one await to the next in    *)
(* one step: the step is the API server answering the awaited call, then   *)
(* the handler running until it awaits again or ends. A call the code does *)
(* not await stays in `pending` until the API server answers it.           *)
(***************************************************************************)
EXTENDS Integers, Sequences, FiniteSets, TLC

VARIABLES
    dashConfig,     \* getDashboardConfig().spec.notebookController
    cms,            \* the namespace: ConfigMap name -> data (absent names are not in the domain)
    upc,            \* updateClusterSettings: the call it awaits, or "idle" / "done"
    query,          \* request.query of the current update request
    nreq,           \* number of update requests started
    before,         \* the namespace when the current update request arrived
    jupyterhubCM,   \* the body read back at line 102
    pending,        \* calls issued without await, not yet answered
    unhandled,      \* rejections of un-awaited calls (nobody catches them)
    log,            \* answers to the calls of the current update request
    result,         \* how the current update request ended
    gpc,            \* getClusterSettings: the call it awaits, or "idle" / "done"
    clusterSettings,\* the record getClusterSettings builds
    gread,          \* answer to the backing-store read of getClusterSettings
    gafter,         \* the update request that had ended when getClusterSettings started (0: none)
    gresult         \* how getClusterSettings ended

vars == <<dashConfig, cms, upc, query, nreq, before, jupyterhubCM, pending, unhandled, log, result,
          gpc, clusterSettings, gread, gafter, gresult>>

uvars == <<upc, query, nreq, before, jupyterhubCM, log, result>>
gvars == <<gpc, clusterSettings, gread, gafter, gresult>>

----------------------------------------------------------------------------
(* Bounds *)

MaxRequests == 1

----------------------------------------------------------------------------
(* JavaScript values *)

Undefined == <<"undefined">>       \* no string: its one element is not a character
NaN == -1

sTrue == <<"t", "r", "u", "e">>
sFalse == <<"f", "a", "l", "s", "e">>
sNull == <<"n", "u", "l", "l">>
sGi == <<"G", "i">>

Digits == <<"0", "1", "2", "3", "4", "5", "6", "7", "8", "9">>

IsDigit(c) == \E i \in 1..10 : Digits[i] = c

DigitValue(c) == (CHOOSE i \in 1..10 : Digits[i] = c) - 1

RECURSIVE DecimalValue(_)
DecimalValue(s) ==
    IF s = <<>> THEN 0
    ELSE 10 * DecimalValue(SubSeq(s, 1, Len(s) - 1)) + DigitValue(s[Len(s)])

\* Number(v) for undefined, the empty string and strings of decimal digits.
Number(v) ==
    IF v = Undefined THEN NaN
    ELSE IF \A i \in 1..Len(v) : IsDigit(v[i]) THEN DecimalValue(v)
    ELSE NaN

\* if (v): undefined and the empty string are falsy, every other string is truthy.
Truthy(v) == v # Undefined /\ v # <<>>

\* Boolean(v)
Boolean(v) == Truthy(v)

\* String(b) of a boolean
StringOfBool(b) == IF b THEN sTrue ELSE sFalse

\* s.replace(pat, ''): the first occurrence of pat is removed.
Replace(s, pat) ==
    LET hits == {i \in 1..(Len(s) - Len(pat) + 1) : SubSeq(s, i, i + Len(pat) - 1) = pat}
    IN  IF hits = {} THEN s
        ELSE LET i == CHOOSE j \in hits : \A k \in hits : j <= k
             IN  SubSeq(s, 1, i - 1) \o SubSeq(s, i + Len(pat), Len(s))

RECURSIVE GCD(_, _)
GCD(a, b) == IF b = 0 THEN a ELSE GCD(b, a % b)

\* A decimal string that need not be an integer ("1.5") is kept as the exact
\* fraction it denotes, <<numerator, denominator>> in lowest terms. IEEE
\* rounding is not modelled.
Fraction(n, d) ==
    IF n = NaN THEN <<NaN, 1>>
    ELSE LET g == IF GCD(n, d) = 0 THEN 1 ELSE GCD(n, d) IN <<n \div g, d \div g>>

\* Number(f) * 60 for such a string
TimesSixty(f) == IF f[1] = NaN THEN NaN ELSE (f[1] * 60) \div f[2]

\* obj[k], undefined when the key is absent
Field(obj, k) == IF k \in DOMAIN obj THEN obj[k] ELSE Undefined

----------------------------------------------------------------------------
(* Program constants *)

jupyterhubCfg == "jupyterhub-cfg"
nbcCfg == "notebook-controller-culler-config"
segmentKeyCfg == "odh-segment-key-config"

DEFAULT_PVC_SIZE == 20
DEFAULT_CULLER_TIMEOUT == 31536000
DEFAULT_IDLENESS_CHECK_PERIOD == <<"1">>
DEFAULT_CLUSTER_SETTINGS ==
    [pvcSize |-> DEFAULT_PVC_SIZE, cullerTimeout |-> DEFAULT_CULLER_TIMEOUT,
     userTrackingEnabled |-> "null"]

----------------------------------------------------------------------------
(* The Kubernetes API as the handlers see it *)

\* The error a failed call rejects with: an HttpError of @kubernetes/client-node
\* carries statusCode and response; a TypeError carries neither.
HttpError(status) ==
    [message |-> "HTTP request failed", statusCode |-> status,
     response |-> [statusCode |-> status]]
PlainError(msg) == [message |-> msg]

ErrorOf(status) == HttpError(status)

\* e.statusCode === status
HasStatusCode(e, status) == "statusCode" \in DOMAIN e /\ e.statusCode = status

\* e.response?.statusCode === status
HasResponseStatusCode(e, status) ==
    "response" \in DOMAIN e /\ e["response"].statusCode = status

\* The statuses a call on ConfigMap `name` can be answered with in namespace ns:
\* what the object's presence decides, or a failure of the server.
Answers(op, name, ns) ==
    {500} \cup
    (IF op = "create"
     THEN (IF name \in DOMAIN ns THEN {409} ELSE {200})
     ELSE (IF name \in DOMAIN ns THEN {200} ELSE {404}))

\* JSON.stringify drops the fields whose value is undefined.
Serialized(body) == [k \in {j \in DOMAIN body : body[j] # Undefined} |-> body[k]]

\* application/merge-patch+json on the data of a ConfigMap
MergePatch(data, body) ==
    LET b == Serialized(body)
    IN  [k \in DOMAIN data \cup DOMAIN b |-> IF k \in DOMAIN b THEN b[k] ELSE data[k]]

\* lines 176-196: the namespace after patchCM(name, {data: body}) answered 200
patchCM(ns, name, body) == [ns EXCEPT ![name] = MergePatch(ns[name], body)]

deleteNamespacedConfigMap(ns, name) == [n \in DOMAIN ns \ {name} |-> ns[n]]

createNamespacedConfigMap(ns, name, data) == (name :> data) @@ ns

\* utils/deployment: the restart request is answered, or fails (the workload
\* may be missing).
RolloutAnswers == {200, 404, 500}

Entry(op, name, status) == [op |-> op, name |-> name, status |-> status]

----------------------------------------------------------------------------
(* updateClusterSettings, lines 44-117 *)

NoResult == [kind |-> "none"]
Returned(success, error) == [kind |-> "returned", success |-> success, error |-> error]
ReturnedUndefined == [kind |-> "undefined"]
Threw(name) == [kind |-> "threw", error |-> name]

\* dashConfig.spec?.notebookController?.enabled (lines 59, 134)
NotebookControllerEnabled ==
    "notebookController" \in DOMAIN dashConfig /\ dashConfig.notebookController.enabled

\* The handler stops at an await.
Awaits(pc, lg, pend) ==
    /\ upc' = pc
    /\ result' = NoResult
    /\ log' = lg
    /\ pending' = pend

\* The handler ends.
Ends(r, lg, pend) ==
    /\ upc' = "done"
    /\ result' = r
    /\ log' = lg
    /\ pending' = pend

\* lines 111-116: the catch of the whole body. `e.respose` names no property of
\* an error, so the argument of fastify.log.error throws a TypeError before
\* the return of line 114 is reached.
Catch(e, lg, pend) ==
    IF ~HasResponseStatusCode(e, 404)
    THEN IF Field(e, "respose") = Undefined
         THEN Ends(Threw("TypeError"), lg, pend)
         ELSE Ends(Returned(FALSE, "Unable to update cluster settings. "), lg, pend)
    ELSE Ends(ReturnedUndefined, lg, pend)

\* lines 99-102: the rollout of the controller, or the read-back of jupyterhub-cfg
ContRollout(lg, pend) ==
    IF "notebookController" \notin DOMAIN dashConfig
    THEN Catch(PlainError("TypeError"), lg, pend)
    ELSE IF dashConfig.notebookController.enabled
         THEN Awaits("nbcRollout", lg, pend)
         ELSE Awaits("jhRead", lg, pend)

\* lines 91-96: the patch of jupyterhub-cfg
JupyterhubPatch(q) ==
    [singleuser_pvc_size |-> Field(q, "pvcSize") \o sGi,
     culler_timeout |-> Field(q, "cullerTimeout")]

\* line 58 without its guard: the pair is acted on whatever the request holds
BothSupplied_Unguarded(q) == TRUE

\* line 58
BothSupplied(q) == Truthy(Field(q, "pvcSize")) /\ Truthy(Field(q, "cullerTimeout"))

\* lines 60-64
IsEnabled(q) == Number(Field(q, "cullerTimeout")) # DEFAULT_CULLER_TIMEOUT

\* lines 58-98, up to the first await. The patch of line 91 is not awaited:
\* the call is issued and the handler goes on to line 99.
ContPvc(q, n, lg, pend) ==
    IF BothSupplied(q)
    THEN IF NotebookControllerEnabled
         THEN IF ~IsEnabled(q)
              THEN Awaits("nbcDelete", lg, pend)
              ELSE Awaits("nbcPatch", lg, pend)
         ELSE ContRollout(lg, pend \cup {[req |-> n, name |-> jupyterhubCfg,
                                          body |-> JupyterhubPatch(q)]})
    ELSE ContRollout(lg, pend)

\* line 53
TrackingRequested(q) == Field(q, "userTrackingEnabled") # sNull

\* lines 61, 70, 82 without the division: the timeout is stored in seconds
CullingData_Seconds(q) ==
    [ENABLE_CULLING |-> StringOfBool(IsEnabled(q)),
     CULL_IDLE_TIME |-> Fraction(Number(Field(q, "cullerTimeout")), 1)]

\* lines 61, 70, 81-82: the culling fields
CullingData(q) ==
    [ENABLE_CULLING |-> StringOfBool(IsEnabled(q)),
     CULL_IDLE_TIME |-> Fraction(Number(Field(q, "cullerTimeout")), 60)]

\* lines 74-85
NewCullingConfigMap(q) ==
    CullingData(q) @@ [IDLENESS_CHECK_PERIOD |-> DEFAULT_IDLENESS_CHECK_PERIOD]

\* line 103
SizeDiffers(cm, q) == Replace(cm.singleuser_pvc_size, sGi) # Field(q, "pvcSize")

\* line 106
TimeoutDiffers(cm, q) == cm.culler_timeout # Field(q, "cullerTimeout")

\* lines 106-110
ContCuller(cm, lg, pend) ==
    IF TimeoutDiffers(cm, query)
    THEN Awaits("cullerRollout", lg, pend)
    ELSE Ends(Returned(TRUE, "null"), lg, pend)

Queries ==
    LET sizes == {<<"2", "0">>, <<"3", "0">>}
        timeouts == {<<"9", "0">>, <<"3", "6", "0", "0">>,
                     <<"3", "1", "5", "3", "6", "0", "0", "0">>}
        flags == {sNull, sTrue}
        Opt(k, S) == {<<>>} \cup {(k :> v) : v \in S}
    IN  {a @@ b @@ c : a \in Opt("pvcSize", sizes), b \in Opt("cullerTimeout", timeouts),
                       c \in Opt("userTrackingEnabled", flags)}

\* A request arrives: lines 48-57, up to the first await.
UpdateStart(q) ==
    /\ upc \in {"idle", "done"}
    /\ nreq < MaxRequests
    /\ query' = q
    /\ nreq' = nreq + 1
    /\ before' = cms
    /\ jupyterhubCM' = <<>>
    /\ IF TrackingRequested(q)
       THEN Awaits("segPatch", <<>>, pending)
       ELSE ContPvc(q, nreq + 1, <<>>, pending)
    /\ UNCHANGED <<dashConfig, cms, unhandled, gvars>>

\* lines 54-56 answered
SegPatchDone(a) ==
    /\ upc = "segPatch"
    /\ a \in Answers("patch", segmentKeyCfg, cms)
    /\ LET lg == Append(log, Entry("patch", segmentKeyCfg, a))
       IN  IF a = 200
           THEN /\ cms' = patchCM(cms, segmentKeyCfg,
                                  [segmentKeyEnabled |-> Field(query, "userTrackingEnabled")])
                /\ ContPvc(query, nreq, lg, pending)
           ELSE /\ cms' = cms
                /\ Catch(ErrorOf(a), lg, pending)
    /\ UNCHANGED <<dashConfig, query, nreq, before, jupyterhubCM, unhandled, gvars>>

\* line 66 answered
NbcDeleteDone(a) ==
    /\ upc = "nbcDelete"
    /\ a \in Answers("delete", nbcCfg, cms)
    /\ LET lg == Append(log, Entry("delete", nbcCfg, a))
       IN  IF a = 200
           THEN /\ cms' = deleteNamespacedConfigMap(cms, nbcCfg)
                /\ ContRollout(lg, pending)
           ELSE /\ cms' = cms
                /\ Catch(ErrorOf(a), lg, pending)
    /\ UNCHANGED <<dashConfig, query, nreq, before, jupyterhubCM, unhandled, gvars>>

\* lines 68-88: the patch answered; its catch creates the ConfigMap on 404 and
\* drops every other error.
NbcPatchDone(a) ==
    /\ upc = "nbcPatch"
    /\ a \in Answers("patch", nbcCfg, cms)
    /\ LET lg == Append(log, Entry("patch", nbcCfg, a))
       IN  IF a = 200
           THEN /\ cms' = patchCM(cms, nbcCfg, CullingData(query))
                /\ ContRollout(lg, pending)
           ELSE /\ cms' = cms
                /\ IF HasStatusCode(ErrorOf(a), 404)
                   THEN Awaits("nbcCreate", lg, pending)
                   ELSE ContRollout(lg, pending)
    /\ UNCHANGED <<dashConfig, query, nreq, before, jupyterhubCM, unhandled, gvars>>

\* line 86 answered
NbcCreateDone(a) ==
    /\ upc = "nbcCreate"
    /\ a \in Answers("create", nbcCfg, cms)
    /\ LET lg == Append(log, Entry("create", nbcCfg, a))
       IN  IF a = 200
           THEN /\ cms' = createNamespacedConfigMap(cms, nbcCfg, NewCullingConfigMap(query))
                /\ ContRollout(lg, pending)
           ELSE /\ cms' = cms
                /\ Catch(ErrorOf(a), lg, pending)
    /\ UNCHANGED <<dashConfig, query, nreq, before, jupyterhubCM, unhandled, gvars>>

\* line 100 answered
NbcRolloutDone(a) ==
    /\ upc = "nbcRollout"
    /\ a \in RolloutAnswers
    /\ LET lg == Append(log, Entry("rollout", "notebook-controller-deployment", a))
       IN  IF a = 200
           THEN Ends(Returned(TRUE, "null"), lg, pending)
           ELSE Catch(ErrorOf(a), lg, pending)
    /\ UNCHANGED <<dashConfig, cms, query, nreq, before, jupyterhubCM, unhandled, gvars>>

\* lines 102-103 answered
JhReadDone(a) ==
    /\ upc = "jhRead"
    /\ a \in Answers("read", jupyterhubCfg, cms)
    /\ LET lg == Append(log, Entry("read", jupyterhubCfg, a))
       IN  IF a = 200
           THEN /\ jupyterhubCM' = cms[jupyterhubCfg]
                /\ IF "singleuser_pvc_size" \notin DOMAIN cms[jupyterhubCfg]
                   THEN Catch(PlainError("TypeError"), lg, pending)
                   ELSE IF SizeDiffers(cms[jupyterhubCfg], query)
                        THEN Awaits("jhRollout", lg, pending)
                        ELSE ContCuller(cms[jupyterhubCfg], lg, pending)
           ELSE /\ jupyterhubCM' = jupyterhubCM
                /\ Catch(ErrorOf(a), lg, pending)
    /\ UNCHANGED <<dashConfig, cms, query, nreq, before, unhandled, gvars>>

\* line 104 answered
JhRolloutDone(a) ==
    /\ upc = "jhRollout"
    /\ a \in RolloutAnswers
    /\ LET lg == Append(log, Entry("rollout", "jupyterhub", a))
       IN  IF a = 200
           THEN ContCuller(jupyterhubCM, lg, pending)
           ELSE Catch(ErrorOf(a), lg, pending)
    /\ UNCHANGED <<dashConfig, cms, query, nreq, before, jupyterhubCM, unhandled, gvars>>

\* line 107 answered
CullerRolloutDone(a) ==
    /\ upc = "cullerRollout"
    /\ a \in RolloutAnswers
    /\ LET lg == Append(log, Entry("rollout", "jupyterhub-idle-culler", a))
       IN  IF a = 200
           THEN Ends(Returned(TRUE, "null"), lg, pending)
           ELSE Catch(ErrorOf(a), lg, pending)
    /\ UNCHANGED <<dashConfig, cms, query, nreq, before, jupyterhubCM, unhandled, gvars>>

\* The API server answers the patch of line 91, which nobody awaits: the
\* handler may be anywhere after line 97, or have returned. A rejection is
\* caught by nobody.
JhPatchLands(c, a) ==
    /\ c \in pending
    /\ a \in Answers("patch", c.name, cms)
    /\ pending' = pending \ {c}
    /\ cms' = IF a = 200 THEN patchCM(cms, c.name, c.body) ELSE cms
    /\ unhandled' = IF a = 200 THEN unhandled ELSE unhandled \cup {c.req}
    /\ log' = IF c.req = nreq THEN Append(log, Entry("patch", c.name, a)) ELSE log
    /\ UNCHANGED <<dashConfig, upc, query, nreq, before, jupyterhubCM, result, gvars>>

----------------------------------------------------------------------------
(* getClusterSettings, lines 119-174 *)

NoRead == [status |-> 0]

\* A request arrives: lines 122-129, up to the first await.
GetStart ==
    /\ gpc \in {"idle", "done"}
    /\ clusterSettings' = DEFAULT_CLUSTER_SETTINGS
    /\ gpc' = "segRead"
    /\ gread' = NoRead
    /\ gafter' = IF upc = "done" THEN nreq ELSE 0
    /\ gresult' = NoResult
    /\ UNCHANGED <<dashConfig, cms, uvars, pending, unhandled>>

\* lines 129-138 (or 156, 168-169): the tracking flag answered; every failure
\* is logged and leaves the flag null. Then the backing store is read.
GetSegRead(a) ==
    /\ gpc = "segRead"
    /\ a \in Answers("read", segmentKeyCfg, cms)
    /\ LET tracked == IF a = 200
                      THEN (IF Field(cms[segmentKeyCfg], "segmentKeyEnabled") = sTrue
                            THEN "true" ELSE "false")
                      ELSE clusterSettings.userTrackingEnabled
       IN  IF NotebookControllerEnabled
           THEN /\ clusterSettings' = [pvcSize |-> 20, cullerTimeout |-> DEFAULT_CULLER_TIMEOUT,
                                       userTrackingEnabled |-> tracked]
                /\ gpc' = "nbcRead"
           ELSE /\ clusterSettings' = [clusterSettings EXCEPT !.userTrackingEnabled = tracked]
                /\ gpc' = "jhRead"
    /\ UNCHANGED <<dashConfig, cms, uvars, pending, unhandled, gread, gafter, gresult>>

\* lines 140-144
CullerTimeoutOf(data, current) ==
    IF Boolean(Field(data, "ENABLE_CULLING"))
    THEN TimesSixty(data.CULL_IDLE_TIME)
    ELSE current

\* lines 137-153: the culling ConfigMap answered
GetNbcRead(a) ==
    /\ gpc = "nbcRead"
    /\ a \in Answers("read", nbcCfg, cms)
    /\ gpc' = "done"
    /\ IF a = 200
       THEN /\ gread' = [status |-> a, data |-> cms[nbcCfg]]
            /\ clusterSettings' =
                 [clusterSettings EXCEPT
                    !.cullerTimeout = CullerTimeoutOf(cms[nbcCfg], clusterSettings.cullerTimeout)]
            /\ gresult' = [kind |-> "returned"]
       ELSE /\ gread' = [status |-> a]
            /\ clusterSettings' = clusterSettings
            /\ gresult' = IF HasStatusCode(ErrorOf(a), 404)
                          THEN [kind |-> "returned"]
                          ELSE Threw("HttpError")
    /\ UNCHANGED <<dashConfig, cms, uvars, pending, unhandled, gafter>>

\* lines 167-174
readJupyterhubCfg(data) ==
    <<Number(Replace(data.singleuser_pvc_size, sGi)), Number(data.culler_timeout)>>

\* lines 155-164: jupyterhub-cfg answered; a failure is logged and the
\* defaults stay.
GetJhRead(a) ==
    /\ gpc = "jhRead"
    /\ a \in Answers("read", jupyterhubCfg, cms)
    /\ gpc' = "done"
    /\ gresult' = [kind |-> "returned"]
    /\ IF a = 200
       THEN /\ gread' = [status |-> a, data |-> cms[jupyterhubCfg]]
            /\ clusterSettings' =
                 [clusterSettings EXCEPT
                    !.pvcSize = readJupyterhubCfg(cms[jupyterhubCfg])[1],
                    !.cullerTimeout = readJupyterhubCfg(cms[jupyterhubCfg])[2]]
       ELSE /\ gread' = [status |-> a]
            /\ clusterSettings' = clusterSettings
    /\ UNCHANGED <<dashConfig, cms, uvars, pending, unhandled, gafter>>

----------------------------------------------------------------------------
(* The system *)

\* The notebookController section of the dashboard configuration: enabled,
\* disabled, or not there.
DashConfigs ==
    {[notebookController |-> [enabled |-> TRUE]],
     [notebookController |-> [enabled |-> FALSE]],
     [groupsConfig |-> "groups"]}

\* The namespace before any request: each ConfigMap is there or not.
Namespaces ==
    LET seg == {<<>>} \cup {segmentKeyCfg :> [segmentKeyEnabled |-> sFalse]}
        nbc == {<<>>} \cup
               {nbcCfg :> [ENABLE_CULLING |-> e, CULL_IDLE_TIME |-> Fraction(10, 1),
                           IDLENESS_CHECK_PERIOD |-> DEFAULT_IDLENESS_CHECK_PERIOD] :
                e \in {sTrue, sFalse}}
        jh == {<<>>} \cup
              {jupyterhubCfg :> [singleuser_pvc_size |-> <<"2", "0">> \o sGi,
                                 culler_timeout |-> <<"3", "6", "0", "0">>]}
    IN  {a @@ b @@ c : a \in seg, b \in nbc, c \in jh}

Init ==
    /\ dashConfig \in DashConfigs
    /\ cms \in Namespaces
    /\ upc = "idle"
    /\ query = <<>>
    /\ nreq = 0
    /\ before = cms
    /\ jupyterhubCM = <<>>
    /\ pending = {}
    /\ unhandled = {}
    /\ log = <<>>
    /\ result = NoResult
    /\ gpc = "idle"
    /\ clusterSettings = DEFAULT_CLUSTER_SETTINGS
    /\ gread = NoRead
    /\ gafter = 0
    /\ gresult = NoResult

Statuses == {200, 404, 409, 500}

UpdateNext ==
    \/ \E q \in Queries : UpdateStart(q)
    \/ \E a \in Statuses : SegPatchDone(a)
    \/ \E a \in Statuses : NbcDeleteDone(a)
    \/ \E a \in Statuses : NbcPatchDone(a)
    \/ \E a \in Statuses : NbcCreateDone(a)
    \/ \E a \in Statuses : NbcRolloutDone(a)
    \/ \E a \in Statuses : JhReadDone(a)
    \/ \E a \in Statuses : JhRolloutDone(a)
    \/ \E a \in Statuses : CullerRolloutDone(a)
    \/ \E c \in pending : \E a \in Statuses : JhPatchLands(c, a)

GetNext ==
    \/ GetStart
    \/ \E a \in Statuses : GetSegRead(a)
    \/ \E a \in Statuses : GetNbcRead(a)
    \/ \E a \in Statuses : GetJhRead(a)

Next == UpdateNext \/ GetNext

\* Update requests alone
Spec == Init /\ [][UpdateNext]_vars

\* Update and read requests, interleaved at their awaits
SpecGet == Init /\ [][Next]_vars

----------------------------------------------------------------------------
(* What the claims speak of *)

\* The current update request got this answer to this call.
Answered(op, name, status) == \E i \in 1..Len(log) : log[i] = Entry(op, name, status)

\* Every call of the current update request answered so far succeeded.
AllAnswered200 == \A i \in 1..Len(log) : log[i].status = 200

\* The successful rollouts of a workload by the current update request
Rollouts(name) == Cardinality({i \in 1..Len(log) : log[i] = Entry("rollout", name, 200)})

LegacyMode == "notebookController" \in DOMAIN dashConfig /\ ~dashConfig.notebookController.enabled

\* The PVC-size/timeout backing stores of a namespace
BackingStores(ns) == [n \in DOMAIN ns \cap {nbcCfg, jupyterhubCfg} |-> ns[n]]

\* The calls of the current update request that are issued and not answered
InFlight ==
    (IF upc \in {"idle", "done"} THEN 0 ELSE 1) + Cardinality({c \in pending : c.req = nreq})

\* A write of the current update request failed, not-found answers set aside.
WriteFailed ==
    \E i \in 1..Len(log) :
        /\ log[i].op \in {"patch", "create", "delete"}
        /\ log[i].status \notin {200, 404}

----------------------------------------------------------------------------
(* Claims *)

\* C1: in notebook-controller mode a request with pvcSize and the disabled
\* sentinel as cullerTimeout, whose calls all succeed but for the delete
\* answering not-found, returns {success: true}, leaves the culling ConfigMap
\* absent and rolls out notebook-controller-deployment.
C1_DisableReturnsSuccess ==
    ( /\ upc = "done"
      /\ NotebookControllerEnabled
      /\ BothSupplied(query)
      /\ ~IsEnabled(query)
      /\ \A i \in 1..Len(log) : log[i].status = 200 \/ log[i] = Entry("delete", nbcCfg, 404) )
    => ( /\ result = Returned(TRUE, "null")
         /\ nbcCfg \notin DOMAIN cms
         /\ Rollouts("notebook-controller-deployment") = 1 )

\* C2: in notebook-controller mode, when the patch of the culling ConfigMap of
\* a request with pvcSize and a cullerTimeout other than the sentinel answers
\* not-found, the handler creates the ConfigMap, and once the create has
\* succeeded the ConfigMap is there with ENABLE_CULLING = 'true',
\* CULL_IDLE_TIME = cullerTimeout / 60 and IDLENESS_CHECK_PERIOD = '1'.
C2_CreatedWhenAbsent ==
    ( /\ NotebookControllerEnabled
      /\ Answered("patch", nbcCfg, 404) )
    => ( /\ BothSupplied(query)
         /\ Number(query.cullerTimeout) # 31536000
         /\ upc = "nbcCreate" \/ \E a \in Statuses : Answered("create", nbcCfg, a)
         /\ Answered("create", nbcCfg, 200) =>
              /\ nbcCfg \in DOMAIN cms
              /\ cms[nbcCfg] = [ENABLE_CULLING |-> sTrue,
                                CULL_IDLE_TIME |-> Fraction(Number(query.cullerTimeout), 60),
                                IDLENESS_CHECK_PERIOD |-> <<"1">>] )

\* C2 happens: the patch answered not-found, the create succeeded, and the
\* request returned, for a timeout that is not a whole number of minutes.
C2_Witness ==
    /\ upc = "done"
    /\ result = Returned(TRUE, "null")
    /\ Answered("patch", nbcCfg, 404)
    /\ Answered("create", nbcCfg, 200)
    /\ nbcCfg \notin DOMAIN before
    /\ query.cullerTimeout = <<"9", "0">>
    /\ cms[nbcCfg].CULL_IDLE_TIME = <<3, 2>>

\* C3: a request that specifies only userTrackingEnabled issues no write to
\* the culling ConfigMap or to jupyterhub-cfg, awaited or not, and none of its
\* steps changes either of them.
C3_TrackingOnlyLeavesStores ==
    [][ ( /\ upc' # upc \/ nreq' # nreq
          /\ DOMAIN query' = {"userTrackingEnabled"} )
        => ( /\ BackingStores(cms') = BackingStores(cms)
             /\ \A c \in pending' : c.req # nreq'
             /\ \A i \in 1..Len(log') :
                    log'[i].name \in {nbcCfg, jupyterhubCfg} => log'[i].op = "read" ) ]_vars

\* C3 happens, in legacy mode: a request with only userTrackingEnabled has
\* patched the tracking ConfigMap, read jupyterhub-cfg back and returned.
C3_Witness ==
    /\ upc = "done"
    /\ DOMAIN query = {"userTrackingEnabled"}
    /\ LegacyMode
    /\ Answered("patch", segmentKeyCfg, 200)
    /\ Answered("read", jupyterhubCfg, 200)
    /\ result = Returned(TRUE, "null")
    /\ {nbcCfg, jupyterhubCfg} \subseteq DOMAIN cms

\* C4: in legacy mode, once updateClusterSettings(pvcSize = p, cullerTimeout = t)
\* has returned {success: true} with jupyterhub-cfg present and every call
\* answered with success, a getClusterSettings that starts afterwards and
\* reads jupyterhub-cfg returns pvcSize = p and cullerTimeout = t.
C4_LegacyRoundTrip ==
    ( /\ gpc = "done"
      /\ gread.status = 200
      /\ nreq > 0
      /\ gafter = nreq
      /\ upc = "done"
      /\ result = Returned(TRUE, "null")
      /\ AllAnswered200
      /\ LegacyMode
      /\ BothSupplied(query)
      /\ jupyterhubCfg \in DOMAIN cms )
    => ( /\ clusterSettings.pvcSize = Number(query.pvcSize)
         /\ clusterSettings.cullerTimeout = Number(query.cullerTimeout) )

\* C5: in legacy mode a request whose pvcSize is the stored size and whose
\* cullerTimeout differs from the stored one, and whose calls all succeed,
\* rolls out jupyterhub-idle-culler exactly once and jupyterhub not at all.
C5_OnlyCullerRollout ==
    ( /\ upc = "done"
      /\ LegacyMode
      /\ BothSupplied(query)
      /\ jupyterhubCfg \in DOMAIN before
      /\ before[jupyterhubCfg].singleuser_pvc_size = query.pvcSize \o sGi
      /\ before[jupyterhubCfg].culler_timeout # query.cullerTimeout
      /\ AllAnswered200 )
    => ( /\ Rollouts("jupyterhub-idle-culler") = 1
         /\ Rollouts("jupyterhub") = 0 )

\* C6: every call of updateClusterSettings (the dashboard configuration
\* having its notebookController section) ends by returning a record:
\* {success: true, error: null} when no call failed or the read-back of
\* jupyterhub-cfg answered not-found, {success: false, error} otherwise.
C6_AlwaysReturnsARecord ==
    (upc = "done" /\ "notebookController" \in DOMAIN dashConfig) =>
        /\ result.kind = "returned"
        /\ IF AllAnswered200 \/ Answered("read", jupyterhubCfg, 404)
           THEN result.success /\ result.error = "null"
           ELSE ~result.success

\* C7: in notebook-controller mode getClusterSettings returns
\* cullerTimeout = CULL_IDLE_TIME * 60 only when the culling ConfigMap it read
\* has ENABLE_CULLING = 'true'; when the ConfigMap is absent or has
\* ENABLE_CULLING = 'false' it returns the disabled sentinel, without error.
C7_TimeoutOnlyWhenEnabled ==
    ( /\ gpc = "done"
      /\ NotebookControllerEnabled
      /\ gread.status \in {200, 404} )
    => ( /\ gresult.kind = "returned"
         /\ clusterSettings.cullerTimeout =
              IF gread.status = 200 /\ Field(gread.data, "ENABLE_CULLING") = sTrue
              THEN TimesSixty(gread.data.CULL_IDLE_TIME)
              ELSE 31536000 )

\* C8: when a write of the request failed (not-found set aside), the caller receives
\* {success: false} with a message; no request returns {success: true} after
\* one of its writes failed.
C8_WriteFailureSurfaced ==
    (upc = "done" /\ WriteFailed) =>
        /\ result.kind = "returned"
        /\ ~result.success
        /\ result # Returned(TRUE, "null")

\* C9: the tracking ConfigMap is patched only when userTrackingEnabled is
\* provided and is not 'null'; a request that omits it or passes 'null' leaves
\* the tracking ConfigMap as it was.
C9_TrackingPatchOnlyWhenProvided ==
    /\ (upc = "segPatch" \/ \E a \in Statuses : Answered("patch", segmentKeyCfg, a))
         => ( /\ "userTrackingEnabled" \in DOMAIN query
              /\ query.userTrackingEnabled # sNull )
    /\ (nreq > 0 /\ Field(query, "userTrackingEnabled") \in {Undefined, sNull})
         => ( /\ (segmentKeyCfg \in DOMAIN cms) = (segmentKeyCfg \in DOMAIN before)
              /\ segmentKeyCfg \in DOMAIN cms => cms[segmentKeyCfg] = before[segmentKeyCfg] )

\* C10: no two calls of one update request are in flight together, and in
\* legacy mode the read-back of jupyterhub-cfg observes the request's patch.
C10_SequentialChain ==
    /\ InFlight <= 1
    /\ ( /\ LegacyMode
         /\ BothSupplied(query)
         /\ Answered("read", jupyterhubCfg, 200) )
       => ( /\ jupyterhubCM.singleuser_pvc_size = query.pvcSize \o sGi
            /\ jupyterhubCM.culler_timeout = query.cullerTimeout )

====
